---- MODULE Spec2Model ----
(***************************************************************************)
(* geoloc-util: the geocode client (api_client.py), the validator and      *)
(* encoder (utils.py) and the CLI loop (geoloc_util.py).                   *)
(*                                                                         *)
(* A string is a sequence of Unicode code points; a byte string is a       *)
(* sequence of numbers 0..255.  Text on the wire is a sequence of ASCII    *)
(* code points.                                                            *)
(***************************************************************************)
EXTENDS Integers, Sequences, FiniteSets, TLC

\* ------------------------------------------------------------------ bounds
\* longest free-text argument drawn from Alphabet
MaxLen == 2
\* most arguments on one command line / calls by one library caller
MaxTokens == 2

\* ------------------------------------------------------- program constants
\* len(zip_code) != 5
ZipLen == 5

\* --------------------------------------------------------------- characters
\* 'a', ' ', '\n', ',', '-', '_', '@', U+00E9 (e acute)
Alphabet == {97, 32, 10, 44, 45, 95, 64, 233}
\* '5', U+0663 (ARABIC-INDIC DIGIT THREE), 'a'
ZipAlphabet == {53, 1635, 97}

\* all sequences over A of length at most n
Strings(A, n) == UNION {[1..k -> A] : k \in 0..n}

\* ZIP-like arguments: every string of ZipLen characters over ZipAlphabet, and
\* the strings of '5' of every length up to ZipLen + 1
ZipTokens == [1..ZipLen -> ZipAlphabet] \cup Strings({53}, ZipLen + 1)

\* the arguments a caller may pass
Tokens == Strings(Alphabet, MaxLen) \cup ZipTokens

\* str.isalpha, on Basic Latin and Latin-1 Supplement
IsAlpha(c) ==
    \/ c \in 65..90
    \/ c \in 97..122
    \/ c \in {170, 181, 186}
    \/ c \in 192..214
    \/ c \in 216..246
    \/ c \in 248..255

\* str.isdigit of one character, on Basic Latin, Latin-1 Supplement and Arabic
IsDigit(c) ==
    \/ c \in 48..57
    \/ c \in {178, 179, 185}
    \/ c \in 1632..1641

\* str.isalnum of one character: alphabetic, decimal, digit or numeric
IsAlnum(c) == IsAlpha(c) \/ IsDigit(c) \/ c \in 188..190

\* str.isspace of one character (what strip() removes and \s matches)
IsSpace(c) ==
    \/ c \in 9..13
    \/ c \in 28..32
    \/ c \in {133, 160, 5760, 8232, 8233, 8239, 8287, 12288}
    \/ c \in 8192..8202

\* the character class [\w\s,.-] of the pattern, under re.UNICODE
InClass(c) == IsAlnum(c) \/ c = 95 \/ IsSpace(c) \/ c \in {44, 46, 45}

\* str.isdigit(): non-empty and every character a digit
isdigit(s) == Len(s) > 0 /\ \A i \in 1..Len(s) : IsDigit(s[i])

\* location.strip(): leading and trailing whitespace removed
RECURSIVE lstrip(_)
lstrip(s) == IF s # <<>> /\ IsSpace(Head(s)) THEN lstrip(Tail(s)) ELSE s

RECURSIVE rstrip(_)
rstrip(s) ==
    IF s # <<>> /\ IsSpace(s[Len(s)]) THEN rstrip(SubSeq(s, 1, Len(s) - 1)) ELSE s

strip(s) == rstrip(lstrip(s))

\* re.match(r'^[\w\s,.-]+$', location, re.UNICODE) is not None
re_match(s) == Len(s) > 0 /\ \A i \in 1..Len(s) : InClass(s[i])

\* ----------------------------------------------------------------- encoding
\* str.encode('utf-8') of one code point below U+10000
Utf8(c) ==
    IF c < 128 THEN <<c>>
    ELSE IF c < 2048 THEN <<192 + (c \div 64), 128 + (c % 64)>>
    ELSE <<224 + (c \div 4096), 128 + ((c \div 64) % 64), 128 + (c % 64)>>

RECURSIVE Utf8Str(_)
Utf8Str(s) == IF s = <<>> THEN <<>> ELSE Utf8(Head(s)) \o Utf8Str(Tail(s))

\* the characters quote() never escapes: A-Z a-z 0-9 _ . - ~
Unreserved(b) ==
    b \in 65..90 \/ b \in 97..122 \/ b \in 48..57 \/ b \in {95, 46, 45, 126}

\* one upper-case hexadecimal digit, as a code point
Hex(n) == IF n < 10 THEN 48 + n ELSE 55 + n

\* urllib.parse.quote_from_bytes(bs, safe)
RECURSIVE QuoteBytes(_, _)
QuoteBytes(bs, safe) ==
    IF bs = <<>> THEN <<>>
    ELSE LET b == Head(bs)
         IN  (IF Unreserved(b) \/ b \in safe
              THEN <<b>>
              ELSE <<37, Hex(b \div 16), Hex(b % 16)>>)
             \o QuoteBytes(Tail(bs), safe)

\* urllib.parse.quote(s, safe=safe)
quote(s, safe) == QuoteBytes(Utf8Str(s), safe)

\* a mutant of encode_location: quote(location, safe=", ")
encode_location_keeps_separators(location) == quote(location, {44, 32})

\* utils.encode_location
encode_location(location) == quote(location, {})

\* urllib.parse.quote_plus(s): quote with ' ' kept, then ' ' written as '+'
quote_plus(s) ==
    LET q == quote(s, {32})
    IN  [i \in 1..Len(q) |-> IF q[i] = 32 THEN 43 ELSE q[i]]

\* ----------------------------------------------------------------- decoding
IsHex(c) == c \in 48..57 \/ c \in 65..70 \/ c \in 97..102

HexVal(c) == IF c \in 48..57 THEN c - 48 ELSE IF c \in 65..70 THEN c - 55 ELSE c - 87

\* the bytes an ASCII text stands for once its %XX escapes are resolved
RECURSIVE UnquoteToBytes(_)
UnquoteToBytes(t) ==
    IF t = <<>> THEN <<>>
    ELSE IF t[1] = 37 /\ Len(t) >= 3 /\ IsHex(t[2]) /\ IsHex(t[3])
         THEN <<16 * HexVal(t[2]) + HexVal(t[3])>> \o UnquoteToBytes(SubSeq(t, 4, Len(t)))
         ELSE <<t[1]>> \o UnquoteToBytes(Tail(t))

IsCont(bs, i) == i <= Len(bs) /\ bs[i] \in 128..191

\* bytes.decode('utf-8', errors='replace'), for sequences of up to 3 bytes
RECURSIVE Utf8Decode(_)
Utf8Decode(bs) ==
    IF bs = <<>> THEN <<>>
    ELSE LET b == bs[1]
         IN  IF b < 128 THEN <<b>> \o Utf8Decode(Tail(bs))
             ELSE IF b \in 194..223 /\ IsCont(bs, 2)
                  THEN <<(b - 192) * 64 + (bs[2] - 128)>>
                       \o Utf8Decode(SubSeq(bs, 3, Len(bs)))
             ELSE IF b \in 224..239 /\ IsCont(bs, 2) /\ IsCont(bs, 3)
                  THEN <<(b - 224) * 4096 + (bs[2] - 128) * 64 + (bs[3] - 128)>>
                       \o Utf8Decode(SubSeq(bs, 4, Len(bs)))
             ELSE <<65533>> \o Utf8Decode(Tail(bs))

\* urllib.parse.unquote of an ASCII text
unquote(t) == Utf8Decode(UnquoteToBytes(t))

\* urllib.parse.unquote_plus: '+' read as ' ', then unquote (what the remote
\* service does with a query-parameter value)
unquote_plus(t) == unquote([i \in 1..Len(t) |-> IF t[i] = 43 THEN 32 ELSE t[i]])

\* ------------------------------------------------------------------- values
\* an item of a result: a location record of the remote service (rec), or a
\* not-found marker (error, with the string it is keyed by)
LocationRecord(r) == [rec |-> r, error |-> "", key |-> <<>>]

Marker(text, k) == [rec |-> "", error |-> text, key |-> k]

\* a JSON value: a list or a dict of items, or null
JsonList(items) == [t |-> "list", items |-> items]

JsonDict(items) == [t |-> "dict", items |-> items]

JsonNull == [t |-> "null", items |-> <<>>]

\* the response bodies the remote service may send with a 2xx status
Bodies == {"[]", "[r1,r2]", "{r1}", "<html>"}

\* the body sent with an error status
ErrorBody == "{message}"

\* HTTP error statuses the remote service may answer with
ErrorStatuses == {401, 404, 500}

\* what requests.get() can end in: a timeout, another transport failure, or a
\* response
Responses ==
    {[kind |-> "timeout", status |-> 0, body |-> ""],
     [kind |-> "transport", status |-> 0, body |-> ""]}
    \cup {[kind |-> "http", status |-> 200, body |-> b] : b \in Bodies}
    \cup {[kind |-> "http", status |-> s, body |-> ErrorBody] : s \in ErrorStatuses}

NoResponse == [kind |-> "none", status |-> 0, body |-> ""]

\* response.json() succeeds
JsonValid(body) == body \in {"[]", "[r1,r2]", "{r1}", "null"}

\* response.json()
JsonValue(body) ==
    CASE body = "[]" -> JsonList(<<>>)
      [] body = "[r1,r2]" -> JsonList(<<LocationRecord("r1"), LocationRecord("r2")>>)
      [] body = "{r1}" -> JsonDict(<<LocationRecord("r1")>>)
      [] OTHER -> JsonNull

\* Python truth value of a parsed JSON value: `not data`
Falsy(v) == v.t = "null" \/ v.items = <<>>

\* --------------------------------------------------------------- exceptions
NoValue == JsonNull

Raise(cls, msg, status) ==
    [kind |-> "raise", cls |-> cls, msg |-> msg, status |-> status, value |-> NoValue]

Return(v) == [kind |-> "return", cls |-> "", msg |-> "", status |-> 0, value |-> v]

NoOutcome == [kind |-> "none", cls |-> "", msg |-> "", status |-> 0, value |-> NoValue]

\* isinstance(e, base): requests' JSONDecodeError derives from json.JSONDecodeError,
\* which derives from ValueError
IsInstance(e, base) ==
    e.kind = "raise" /\ (e.cls = base \/ (e.cls = "JSONDecodeError" /\ base = "ValueError"))

\* response.raise_for_status() raises HTTPError
IsHttpError(status) == status >= 400 /\ status < 600

\* ----------------------------------------------------------------- requests
NoRequest == [endpoint |-> "", value |-> <<>>, wire |-> <<>>, appid |-> FALSE]

\* requests.get(BASE_URL + endpoint, params={name: value, "appid": API_KEY}):
\* requests form-encodes each parameter value with quote_plus and leaves out a
\* parameter whose value is None
Get(endpoint, value, key) ==
    [endpoint |-> endpoint, value |-> value, wire |-> quote_plus(value),
     appid |-> key # "unset"]

\* ---------------------------------------------------------------- validator
\* utils.validate_location_input: the reason it raises ValueError for, or "ok"
\* (it then returns location unchanged)
validate_location_input(location) ==
    IF strip(location) = <<>> THEN "empty"
    ELSE IF ~re_match(location) THEN "illegal"
    ELSE "ok"

\* the check that opens fetch_coordinates_by_zip
validate_zip(zip_code) ==
    IF ~isdigit(zip_code) \/ Len(zip_code) # ZipLen THEN "badzip" ELSE "ok"

\* ------------------------------------------------------------ geocode client
\* what a call has done when it reaches requests.get() or leaves before it
Began(validated, encoded, request, exc) ==
    [validated |-> validated, encoded |-> encoded, request |-> request, exc |-> exc]

\* a mutant of fetch_coordinates_by_name_begin: the request goes out before the
\* argument is validated
fetch_coordinates_by_name_request_first(location, key) ==
    LET v == validate_location_input(location)
        e == encode_location(location)
    IN  Began(v, e, Get("direct", e, key),
              IF v = "ok" THEN NoOutcome
              ELSE Raise("ValueError", "Invalid location input", 0))

\* fetch_coordinates_by_name, up to the request
fetch_coordinates_by_name_begin(location, key) ==
    LET v == validate_location_input(location)
    IN  IF v # "ok"
        THEN Began(v, <<>>, NoRequest, Raise("ValueError", "Invalid location input", 0))
        ELSE LET encoded_location == encode_location(location)
             IN  Began(v, encoded_location, Get("direct", encoded_location, key), NoOutcome)

\* fetch_coordinates_by_zip, up to the request
fetch_coordinates_by_zip_begin(zip_code, key) ==
    LET v == validate_zip(zip_code)
    IN  IF v # "ok"
        THEN Began(v, <<>>, NoRequest, Raise("ValueError", "Invalid ZIP code", 0))
        ELSE Began(v, <<>>, Get("zip", zip_code, key), NoOutcome)

\* a mutant of fetch_coordinates_by_name_finish: an empty result is raised, not
\* returned
fetch_coordinates_by_name_raise_empty(location, r) ==
    IF r.kind = "timeout" THEN Raise("TimeoutError", "The request timed out", 0)
    ELSE IF r.kind = "transport"
    THEN Raise("RuntimeError", "An error occurred during the request", 0)
    ELSE IF IsHttpError(r.status)
    THEN IF r.status = 401
         THEN Raise("RuntimeError", "Unauthorized access", r.status)
         ELSE Raise("RuntimeError", "HTTP error occurred", r.status)
    ELSE IF ~JsonValid(r.body) THEN Raise("JSONDecodeError", "Expecting value", 0)
    ELSE IF Falsy(JsonValue(r.body))
    THEN Raise("ValueError", "No results found for location", 0)
    ELSE Return(JsonValue(r.body))

\* fetch_coordinates_by_name, from the outcome of requests.get() on
fetch_coordinates_by_name_finish(location, r) ==
    IF r.kind = "timeout" THEN Raise("TimeoutError", "The request timed out", 0)
    ELSE IF r.kind = "transport"
    THEN Raise("RuntimeError", "An error occurred during the request", 0)
    ELSE IF IsHttpError(r.status)
    THEN IF r.status = 401
         THEN Raise("RuntimeError", "Unauthorized access", r.status)
         ELSE Raise("RuntimeError", "HTTP error occurred", r.status)
    ELSE IF ~JsonValid(r.body) THEN Raise("JSONDecodeError", "Expecting value", 0)
    ELSE LET data == JsonValue(r.body)
         IN  IF Falsy(data)
             THEN Return(JsonList(<<Marker("No results found for location", location)>>))
             ELSE Return(data)

\* a mutant of fetch_coordinates_by_zip_finish: 401 is not told apart from the
\* other HTTP errors
fetch_coordinates_by_zip_no_401(zip_code, r) ==
    IF r.kind = "timeout" THEN Raise("TimeoutError", "The request timed out", 0)
    ELSE IF r.kind = "transport"
    THEN Raise("RuntimeError", "An error occurred during the request", 0)
    ELSE IF IsHttpError(r.status)
    THEN IF r.status = 404
         THEN Return(JsonDict(<<Marker("No results found for ZIP code", zip_code)>>))
         ELSE Raise("RuntimeError", "HTTP error occurred", r.status)
    ELSE IF ~JsonValid(r.body) THEN Raise("JSONDecodeError", "Expecting value", 0)
    ELSE Return(JsonValue(r.body))

\* fetch_coordinates_by_zip, from the outcome of requests.get() on
fetch_coordinates_by_zip_finish(zip_code, r) ==
    IF r.kind = "timeout" THEN Raise("TimeoutError", "The request timed out", 0)
    ELSE IF r.kind = "transport"
    THEN Raise("RuntimeError", "An error occurred during the request", 0)
    ELSE IF IsHttpError(r.status)
    THEN IF r.status = 404
         THEN Return(JsonDict(<<Marker("No results found for ZIP code", zip_code)>>))
         ELSE IF r.status = 401
         THEN Raise("RuntimeError", "Unauthorized access", r.status)
         ELSE Raise("RuntimeError", "HTTP error occurred", r.status)
    ELSE IF ~JsonValid(r.body) THEN Raise("JSONDecodeError", "Expecting value", 0)
    ELSE Return(JsonValue(r.body))

\* -------------------------------------------------------------------- state
VARIABLES
    apiKey,     \* API_KEY: "set", or "unset" when os.getenv returned None
    caller,     \* "main" (the CLI loop) or "lib" (a caller of the two functions)
    nargs,      \* how many arguments the command line has / calls the caller makes
    idx,        \* how many of them are behind us
    printed,    \* how many lines main has printed
    pc,         \* "ready", "awaiting" (inside requests.get), "returned", "raised",
                \* "exit", "crashed"
    op,         \* the function of the current or last call: "name", "zip", "none"
    arg,        \* its argument
    validated,  \* what validation said of it
    encoded,    \* encoded_location
    nreq,       \* requests issued by this call
    request,    \* the request issued by this call
    resp,       \* what requests.get() ended in
    outcome     \* what the call returned or raised

vars == <<apiKey, caller, nargs, idx, printed, pc, op, arg, validated, encoded,
          nreq, request, resp, outcome>>

Init ==
    /\ apiKey \in {"set", "unset"}
    /\ caller \in {"main", "lib"}
    /\ nargs \in 1..MaxTokens
    /\ idx = 0
    /\ printed = 0
    /\ pc = "ready"
    /\ op = "none"
    /\ arg = <<>>
    /\ validated = ""
    /\ encoded = <<>>
    /\ nreq = 0
    /\ request = NoRequest
    /\ resp = NoResponse
    /\ outcome = NoOutcome

\* the locals of a call that is over
Cleared ==
    /\ op' = "none"
    /\ arg' = <<>>
    /\ validated' = ""
    /\ encoded' = <<>>
    /\ nreq' = 0
    /\ request' = NoRequest
    /\ resp' = NoResponse
    /\ outcome' = NoOutcome

\* a call of function o with argument t, up to requests.get() or to the
\* ValueError of validation
Begin(o, t) ==
    LET b == IF o = "zip" THEN fetch_coordinates_by_zip_begin(t, apiKey)
             ELSE fetch_coordinates_by_name_begin(t, apiKey)
    IN  /\ op' = o
        /\ arg' = t
        /\ validated' = b.validated
        /\ encoded' = b.encoded
        /\ request' = b.request
        /\ nreq' = IF b.request = NoRequest THEN 0 ELSE 1
        /\ resp' = NoResponse
        /\ outcome' = b.exc
        /\ pc' = IF b.exc.kind = "raise" THEN "raised" ELSE "awaiting"
        /\ UNCHANGED <<apiKey, caller, nargs, idx, printed>>

\* main: the loop takes the next argument and routes it
MainLoop(t) ==
    /\ caller = "main"
    /\ pc = "ready"
    /\ idx < nargs
    /\ Begin(IF isdigit(t) THEN "zip" ELSE "name", t)

\* a library caller calls fetch_coordinates_by_name(t)
CallByName(t) ==
    /\ caller = "lib"
    /\ pc = "ready"
    /\ idx < nargs
    /\ Begin("name", t)

\* a library caller calls fetch_coordinates_by_zip(t)
CallByZip(t) ==
    /\ caller = "lib"
    /\ pc = "ready"
    /\ idx < nargs
    /\ Begin("zip", t)

\* requests.get() ends in r and the call runs to its return or raise
Receive(r) ==
    /\ pc = "awaiting"
    /\ resp' = r
    /\ outcome' = IF op = "zip" THEN fetch_coordinates_by_zip_finish(arg, r)
                  ELSE fetch_coordinates_by_name_finish(arg, r)
    /\ pc' = IF outcome'.kind = "raise" THEN "raised" ELSE "returned"
    /\ UNCHANGED <<apiKey, caller, nargs, idx, printed, op, arg, validated, encoded,
                   nreq, request>>

\* main: the call returned; the line is printed and the loop goes on
PrintLine ==
    /\ caller = "main"
    /\ pc = "returned"
    /\ printed' = printed + 1
    /\ idx' = idx + 1
    /\ pc' = "ready"
    /\ Cleared
    /\ UNCHANGED <<apiKey, caller, nargs>>

\* main: the call raised; nothing in main handles it, so the process ends
Crash ==
    /\ caller = "main"
    /\ pc = "raised"
    /\ pc' = "crashed"
    /\ UNCHANGED <<apiKey, caller, nargs, idx, printed, op, arg, validated, encoded,
                   nreq, request, resp, outcome>>

\* a library caller takes the value or handles the exception, and goes on
Handle ==
    /\ caller = "lib"
    /\ pc \in {"returned", "raised"}
    /\ idx' = idx + 1
    /\ pc' = "ready"
    /\ Cleared
    /\ UNCHANGED <<apiKey, caller, nargs, printed>>

\* the loop is over: main returns
Exit ==
    /\ pc = "ready"
    /\ idx = nargs
    /\ pc' = "exit"
    /\ UNCHANGED <<apiKey, caller, nargs, idx, printed, op, arg, validated, encoded,
                   nreq, request, resp, outcome>>

Next ==
    \/ \E t \in Tokens : MainLoop(t)
    \/ \E t \in Tokens : CallByName(t)
    \/ \E t \in Tokens : CallByZip(t)
    \/ \E r \in Responses : Receive(r)
    \/ PrintLine
    \/ Crash
    \/ Handle
    \/ Exit

Spec == Init /\ [][Next]_vars

\* ------------------------------------------------------------------- claims
\* the ApiError tag of an outcome, "Data" for a returned value
Tag(e) ==
    IF e.kind # "raise" THEN "Data"
    ELSE IF IsInstance(e, "ValueError") THEN "InvalidInput"
    ELSE IF e.cls = "TimeoutError" THEN "Timeout"
    ELSE IF e.cls = "RuntimeError" /\ e.msg = "Unauthorized access" THEN "Unauthorized"
    ELSE IF e.cls = "RuntimeError" /\ e.msg = "HTTP error occurred" THEN "Http"
    ELSE IF e.cls = "RuntimeError" /\ e.msg = "An error occurred during the request"
    THEN "Network"
    ELSE "Other"

Chars(s) == {s[i] : i \in 1..Len(s)}

IsAsciiDigit(c) == c \in 48..57

\* the validity rule as the claim words it: non-empty after trimming, and every
\* character a letter, a digit, whitespace, a comma, a period or a hyphen
ClaimedValid(s) ==
    /\ strip(s) # <<>>
    /\ \A i \in 1..Len(s) : IsAlnum(s[i]) \/ IsSpace(s[i]) \/ s[i] \in {44, 46, 45}

\* a text made of unreserved characters and %XX escapes only
RECURSIVE WellEscaped(_)
WellEscaped(t) ==
    IF t = <<>> THEN TRUE
    ELSE IF t[1] = 37
         THEN /\ Len(t) >= 3
              /\ t[2] \in (48..57) \cup (65..70)
              /\ t[3] \in (48..57) \cup (65..70)
              /\ WellEscaped(SubSeq(t, 4, Len(t)))
         ELSE Unreserved(t[1]) /\ WellEscaped(Tail(t))

\* C1: when validation rejects the argument the call raises ValueError and has
\* issued no request; a request is issued only after validation succeeded
C1_NoRequestOnInvalidInput ==
    /\ (op # "none" /\ validated # "ok") =>
           /\ outcome.kind = "raise"
           /\ outcome.cls = "ValueError"
           /\ nreq = 0
           /\ request = NoRequest
    /\ nreq > 0 => validated = "ok"

C1_Witness ==
    /\ op = "name"
    /\ validated = "illegal"
    /\ pc = "raised"
    /\ outcome.cls = "ValueError"
    /\ nreq = 0

\* C2: the q parameter on the wire is the location percent-encoded exactly once,
\* so that the remote service, decoding it once, receives the location
C2_QueryEncodedOnce ==
    (op = "name" /\ nreq = 1) =>
        /\ request.wire = quote_plus(arg)
        /\ unquote_plus(request.wire) = arg

\* C3: when main is over, every argument has been processed and its line
\* printed; a failure on one argument does not end the run
C3_EveryTokenPrinted ==
    (caller = "main" /\ pc \in {"exit", "crashed"}) => printed = nargs

\* C4: validate_location_input accepts s if and only if s is non-empty after
\* trimming and made of letters, digits, whitespace, commas, periods, hyphens
C4_ValidatorAcceptsExactlyClass ==
    op = "name" => (validated = "ok" <=> ClaimedValid(arg))

\* C5: fetch_coordinates_by_zip passes validation, and sends the string
\* unchanged, if and only if the argument is exactly 5 ASCII digits
C5_ZipIsFiveAsciiDigits ==
    op = "zip" =>
        ((validated = "ok" /\ nreq = 1 /\ request.value = arg)
            <=> (Len(arg) = 5 /\ \A i \in 1..Len(arg) : IsAsciiDigit(arg[i])))

C7_FailuresAreDistinguished ==
    /\ resp.kind = "timeout" => Tag(outcome) = "Timeout"
    /\ resp.kind = "transport" => Tag(outcome) = "Network"
    /\ (resp.kind = "http" /\ resp.status = 401) => Tag(outcome) = "Unauthorized"
    /\ (/\ resp.kind = "http"
        /\ IsHttpError(resp.status)
        /\ resp.status # 401
        /\ ~(resp.status = 404 /\ op = "zip")) =>
           (Tag(outcome) = "Http" /\ outcome.status = resp.status)

C7_Witness ==
    /\ op = "zip"
    /\ pc = "raised"
    /\ resp.kind = "http"
    /\ resp.status = 401
    /\ Tag(outcome) = "Unauthorized"

\* C8: without a credential no request is sent: the call fails with a
\* configuration error first
C8_NoRequestWithoutCredential ==
    apiKey = "unset" =>
        /\ nreq = 0
        /\ (op # "none" => outcome.kind = "raise")

\* C9: for an accepted s, decoding encode_location(s) gives s, and the encoded
\* text holds only unreserved characters and percent escapes, so no comma and
\* no space
C9_EncodeRoundTrip ==
    (op = "name" /\ validated = "ok") =>
        /\ unquote(encoded) = arg
        /\ WellEscaped(encoded)
        /\ Chars(encoded) \cap {44, 32} = {}

C9_Witness ==
    /\ op = "name"
    /\ validated = "ok"
    /\ {44, 233} \subseteq Chars(arg)
    /\ unquote(encoded) = arg

\* C10: a ValueError comes from validation alone: once a request was issued the
\* outcome is a value or one of Unauthorized, Timeout, Network, Http
C10_InvalidInputOnlyFromValidation ==
    /\ IsInstance(outcome, "ValueError") => (nreq = 0 /\ validated # "ok")
    /\ (nreq = 1 /\ outcome.kind # "none") =>
           Tag(outcome) \in {"Data", "Unauthorized", "Timeout", "Network", "Http"}

====
